---- MODULE Spec2Model ----
(***************************************************************************)
(* Process-Scheduling-Simulator: process_scheduling.py.                    *)
(*                                                                         *)
(* One request to api_schedule: the Process objects are built from the     *)
(* request, the selected policy (schedule_fcfs, schedule_sjf, schedule_rr, *)
(* schedule_priority) runs on a list of copies, one loop iteration per     *)
(* step, and get_results_dict builds the returned dictionary.              *)
(***************************************************************************)
EXTENDS Integers, Sequences, FiniteSets

(* ------------------------------ bounds --------------------------------- *)
MaxProcs == 3
MaxArrival == 3
MaxBurst == 3
MaxPriority == 2
MaxQuantum == 2
\* the requests of the fair specification: smaller arrivals and bursts
MaxFairArrival == 2
MaxFairBurst == 2
\* the unvalidated requests: fewer processes, fields and quantum down to -MaxNegative
MaxRawProcs == 2
MaxNegative == 1
\* no run with positive bursts and quantum produces more entries than this
\* (one slice per tick, one idle interval per process)
MaxGantt == (MaxProcs * MaxBurst) + MaxProcs

(* ---------------------------- data model ------------------------------- *)
IDLE == "IDLE"

DefaultQuantum == 3

ProcessIds == <<"P1", "P2", "P3", "P4", "P5">>

Algorithms == {"fcfs", "sjf", "rr", "priority"}

Process(process_id, arrival_time, burst_time, priority) ==
    [process_id      |-> process_id,
     arrival_time    |-> arrival_time,
     burst_time      |-> burst_time,
     priority        |-> priority,
     remaining_time  |-> burst_time,
     finish_time     |-> 0,
     turnaround_time |-> 0,
     waiting_time    |-> 0]

copy(p) ==
    [Process(p.process_id, p.arrival_time, p.burst_time, p.priority)
        EXCEPT !.remaining_time = p.remaining_time]

to_dict(p) ==
    [process_id      |-> p.process_id,
     arrival_time    |-> p.arrival_time,
     burst_time      |-> p.burst_time,
     priority        |-> p.priority,
     finish_time     |-> p.finish_time,
     turnaround_time |-> p.turnaround_time,
     waiting_time    |-> p.waiting_time]

GanttEntry(process_id, start_time, end_time) ==
    [process_id |-> process_id, start_time |-> start_time, end_time |-> end_time]

\* [p.copy() for p in processes]
CopyList(ps) == [i \in 1..Len(ps) |-> copy(ps[i])]

(* ------------------------------ helpers -------------------------------- *)
Min2(a, b) == IF a <= b THEN a ELSE b

RECURSIVE SumSeq(_)
SumSeq(s) == IF s = <<>> THEN 0 ELSE s[1] + SumSeq(Tail(s))

\* an insertion that puts a process ahead of those with the same arrival
RECURSIVE InsertByArrivalUnstable(_, _)
InsertByArrivalUnstable(p, s) ==
    IF s = <<>> THEN <<p>>
    ELSE IF s[Len(s)].arrival_time < p.arrival_time
         THEN Append(s, p)
         ELSE Append(InsertByArrivalUnstable(p, SubSeq(s, 1, Len(s) - 1)), s[Len(s)])

\* list.sort(key=lambda p: p.arrival_time): stable
RECURSIVE InsertByArrival(_, _)
InsertByArrival(p, s) ==
    IF s = <<>> THEN <<p>>
    ELSE IF s[Len(s)].arrival_time <= p.arrival_time
         THEN Append(s, p)
         ELSE Append(InsertByArrival(p, SubSeq(s, 1, Len(s) - 1)), s[Len(s)])

RECURSIVE SortByArrival(_)
SortByArrival(s) ==
    IF s = <<>> THEN <<>>
    ELSE InsertByArrival(s[Len(s)], SortByArrival(SubSeq(s, 1, Len(s) - 1)))

\* tuple comparison of the keys used by min(available, key=...)
KeyLess(k1, k2) == k1[1] < k2[1] \/ (k1[1] = k2[1] /\ k1[2] < k2[2])

\* the arrival compared before the burst
SJFKeyArrivalFirst(p) == <<p.arrival_time, p.burst_time>>

SJFKey(p) == <<p.burst_time, p.arrival_time>>

\* equal priorities not ordered by arrival
PriorityKeyNoTieBreak(p) == <<p.priority, 0>>

PriorityKey(p) == <<p.priority, p.arrival_time>>

InSeq(x, s) == \E k \in 1..Len(s) : s[k] = x

\* every process that is not in done, arrived or not
AvailableBeforeArrival(ps, done, now) ==
    {i \in 1..Len(ps) : ~InSeq(i, done)}

\* the processes of ps (by position) that have arrived and are not in done
Available(ps, done, now) ==
    {i \in 1..Len(ps) : ps[i].arrival_time <= now /\ ~InSeq(i, done)}

\* the latest arrival of the pending processes instead of the earliest
NextArrivalLast(ps, done) ==
    LET pending == {i \in 1..Len(ps) : ~InSeq(i, done)}
        last    == CHOOSE i \in pending :
                      \A j \in pending : ps[i].arrival_time >= ps[j].arrival_time
    IN ps[last].arrival_time

\* min(p.arrival_time for p in processes if p not in completed)
NextArrival(ps, done) ==
    LET pending == {i \in 1..Len(ps) : ~InSeq(i, done)}
        first   == CHOOSE i \in pending :
                      \A j \in pending : ps[i].arrival_time <= ps[j].arrival_time
    IN ps[first].arrival_time

\* min(available, key=...): the first of the minimal ones, in list order
SelectSJF(ps, avail) ==
    CHOOSE i \in avail :
        \A j \in avail : /\ ~KeyLess(SJFKey(ps[j]), SJFKey(ps[i]))
                         /\ (SJFKey(ps[j]) = SJFKey(ps[i]) => i <= j)

SelectPriority(ps, avail) ==
    CHOOSE i \in avail :
        \A j \in avail : /\ ~KeyLess(PriorityKey(ps[j]), PriorityKey(ps[i]))
                         /\ (PriorityKey(ps[j]) = PriorityKey(ps[i]) => i <= j)

\* the completed process also gets its remaining_time cleared
FinishClearsRemaining(p, now) ==
    [p EXCEPT !.finish_time     = now,
              !.turnaround_time = now - p.arrival_time,
              !.waiting_time    = (now - p.arrival_time) - p.burst_time,
              !.remaining_time  = 0]

\* the turnaround measured from time 0 instead of from the arrival
FinishFromZero(p, now) ==
    [p EXCEPT !.finish_time     = now,
              !.turnaround_time = now,
              !.waiting_time    = now - p.burst_time]

\* finish_time, turnaround_time and waiting_time of a process completing at now
Finish(p, now) ==
    [p EXCEPT !.finish_time     = now,
              !.turnaround_time = now - p.arrival_time,
              !.waiting_time    = (now - p.arrival_time) - p.burst_time]

\* the quantum ignored: every slice is one tick
ExecuteTimeOneTick(quantum, remaining) == 1

\* every slice takes the whole quantum
ExecuteTimeWholeQuantum(quantum, remaining) == quantum

\* execute_time = min(time_quantum, current.remaining_time)
ExecuteTime(quantum, remaining) == Min2(quantum, remaining)

\* the remaining time is not decremented
RanNotDecremented(p, execute_time) == p

\* current.remaining_time -= execute_time
Ran(p, execute_time) == [p EXCEPT !.remaining_time = @ - execute_time]

\* the idle interval recorded without its length
IdleEntryEmpty(now, until) == GanttEntry(IDLE, now, now)

\* gantt.append(GanttEntry("IDLE", current_time, next_arrival))
IdleEntry(now, until) == GanttEntry(IDLE, now, until)

\* the idle gap is not accumulated
IdleTimeNotAdded(total, now, until) == total

\* total_idle_time += (next_arrival - current_time)
IdleTime(total, now, until) == total + (until - now)

\* gantt.append(GanttEntry(process_id, current_time, current_time + duration))
RunEntry(process_id, now, duration) == GanttEntry(process_id, now, now + duration)

NoResult ==
    [processes |-> <<>>, gantt |-> <<>>, total_time |-> 0, total_idle_time |-> 0,
     total_turnaround |-> 0, total_waiting |-> 0]

get_results_dict(ps, g, total_time, idle) ==
    [processes        |-> [i \in 1..Len(ps) |-> to_dict(ps[i])],
     gantt            |-> g,
     total_time       |-> total_time,
     total_idle_time  |-> idle,
     total_turnaround |-> SumSeq([i \in 1..Len(ps) |-> ps[i].turnaround_time]),
     total_waiting    |-> SumSeq([i \in 1..Len(ps) |-> ps[i].waiting_time])]

(* ------------------------------- state --------------------------------- *)
VARIABLES
    processes_data,   \* request.json['processes']: arrival, burst, priority of each
    algorithm,        \* request.json['algorithm']
    time_quantum,     \* request.json['time_quantum']
    pc,               \* "request", the running policy, or "done"
    processes,        \* api_schedule's own list of Process objects
    passed,           \* the list handed to the policy: [p.copy() for p in processes]
    processes_copy,   \* schedule_rr's sorted private copy
    ready_queue,      \* schedule_rr: positions in processes_copy
    process_index,    \* schedule_rr: how many of processes_copy were enqueued
    completed_count,  \* schedule_rr: completed
    completed,        \* schedule_sjf / schedule_priority: positions in passed
    loop_index,       \* schedule_fcfs: how many iterations of the for loop ran
    gantt,
    current_time,
    total_idle_time,
    returned,         \* "none", "result" or "error"
    error,            \* the error message of the response
    result            \* the dictionary returned by the policy

vars == <<processes_data, algorithm, time_quantum, pc, processes, passed,
          processes_copy, ready_queue, process_index, completed_count, completed,
          loop_index, gantt, current_time, total_idle_time, returned, error, result>>

request == <<processes_data, algorithm, time_quantum>>

rr_state == <<processes_copy, ready_queue, process_index, completed_count>>

timeline == <<gantt, current_time, total_idle_time>>

response == <<returned, error, result>>

(* ------------------------------- Init ---------------------------------- *)
Descriptor(Arrivals, Bursts) ==
    [arrival : Arrivals, burst : Bursts, priority : 1..MaxPriority]

RECURSIVE Lists(_, _)
Lists(n, S) ==
    IF n = 0 THEN {<<>>}
    ELSE {Append(l, x) : l \in Lists(n - 1, S), x \in S}

InitWith(Counts, Arrivals, Bursts, Quanta, Algs) ==
    /\ \E n \in Counts : processes_data \in Lists(n, Descriptor(Arrivals, Bursts))
    /\ algorithm \in Algs
    /\ time_quantum \in (IF algorithm = "rr" THEN Quanta ELSE {DefaultQuantum})
    /\ pc = "request"
    /\ processes = <<>>
    /\ passed = <<>>
    /\ processes_copy = <<>>
    /\ ready_queue = <<>>
    /\ process_index = 0
    /\ completed_count = 0
    /\ completed = <<>>
    /\ loop_index = 0
    /\ gantt = <<>>
    /\ current_time = 0
    /\ total_idle_time = 0
    /\ returned = "none"
    /\ error = ""
    /\ result = NoResult

\* requests whose descriptors and quantum are in the documented ranges
Init ==
    InitWith(0..MaxProcs, 0..MaxArrival, 1..MaxBurst,
             (1..MaxQuantum) \cup {DefaultQuantum}, Algorithms \cup {"other"})

\* the same requests with smaller arrivals and bursts
InitFair ==
    InitWith(0..MaxProcs, 0..MaxFairArrival, 1..MaxFairBurst,
             (1..MaxQuantum) \cup {DefaultQuantum}, Algorithms \cup {"other"})

\* any integers: api_schedule does not look at the values
InitRaw ==
    InitWith(0..MaxRawProcs, (0 - MaxNegative)..MaxArrival, (0 - MaxNegative)..MaxBurst,
             (0 - MaxNegative)..MaxQuantum, Algorithms \cup {"other"})

(* ---------------------------- api_schedule ----------------------------- *)
\* the Process objects built from the request
BuildProcesses(data) ==
    [i \in 1..Len(data) |->
        Process(ProcessIds[i], data[i].arrival, data[i].burst, data[i].priority)]

\* the check for an empty list left out
RejectsNothing(ps) == FALSE

\* if not processes: return error
RejectsEmpty(ps) == ps = <<>>

ApiNoProcesses ==
    /\ pc = "request"
    /\ RejectsEmpty(BuildProcesses(processes_data))
    /\ processes' = BuildProcesses(processes_data)
    /\ returned' = "error"
    /\ error' = "No processes provided"
    /\ pc' = "done"
    /\ UNCHANGED <<request, passed, rr_state, completed, loop_index, timeline, result>>

ApiInvalidAlgorithm ==
    /\ pc = "request"
    /\ ~RejectsEmpty(BuildProcesses(processes_data))
    /\ algorithm \notin Algorithms
    /\ processes' = BuildProcesses(processes_data)
    /\ returned' = "error"
    /\ error' = "Invalid algorithm"
    /\ pc' = "done"
    /\ UNCHANGED <<request, passed, rr_state, completed, loop_index, timeline, result>>

\* schedule_fcfs([p.copy() for p in processes]) up to the for loop:
\* the list passed in is sorted in place
CallFCFS ==
    /\ pc = "request"
    /\ ~RejectsEmpty(BuildProcesses(processes_data))
    /\ algorithm = "fcfs"
    /\ processes' = BuildProcesses(processes_data)
    /\ passed' = SortByArrival(CopyList(processes'))
    /\ pc' = "fcfs"
    /\ UNCHANGED <<request, rr_state, completed, loop_index, timeline, response>>

CallSJF ==
    /\ pc = "request"
    /\ ~RejectsEmpty(BuildProcesses(processes_data))
    /\ algorithm = "sjf"
    /\ processes' = BuildProcesses(processes_data)
    /\ passed' = CopyList(processes')
    /\ pc' = "sjf"
    /\ UNCHANGED <<request, rr_state, completed, loop_index, timeline, response>>

CallPriority ==
    /\ pc = "request"
    /\ ~RejectsEmpty(BuildProcesses(processes_data))
    /\ algorithm = "priority"
    /\ processes' = BuildProcesses(processes_data)
    /\ passed' = CopyList(processes')
    /\ pc' = "priority"
    /\ UNCHANGED <<request, rr_state, completed, loop_index, timeline, response>>

\* nothing is enqueued before the loop
InitialEnqueueNone(pcopy) == 0

\* the processes enqueued before the loop of schedule_rr: the first one, if it has arrived
InitialEnqueue(pcopy) ==
    IF 0 < Len(pcopy) /\ pcopy[1].arrival_time <= 0 THEN 1 ELSE 0

\* schedule_rr([p.copy() for p in processes], time_quantum) up to the while loop
CallRR ==
    /\ pc = "request"
    /\ ~RejectsEmpty(BuildProcesses(processes_data))
    /\ algorithm = "rr"
    /\ processes' = BuildProcesses(processes_data)
    /\ passed' = CopyList(processes')
    /\ processes_copy' = SortByArrival(CopyList(passed'))
    /\ process_index' = InitialEnqueue(processes_copy')
    /\ ready_queue' = [k \in 1..process_index' |-> k]
    /\ completed_count' = 0
    /\ pc' = "rr"
    /\ UNCHANGED <<request, completed, loop_index, timeline, response>>

(* ---------------------------- schedule_fcfs ---------------------------- *)
\* one iteration of "for process in processes"
FCFSStep ==
    /\ pc = "fcfs"
    /\ loop_index < Len(passed)
    /\ LET process == passed[loop_index + 1]
           idle    == current_time < process.arrival_time
           start   == IF idle THEN process.arrival_time ELSE current_time
           g1      == IF idle
                      THEN Append(gantt, IdleEntry(current_time, process.arrival_time))
                      ELSE gantt
       IN /\ gantt' = Append(g1, RunEntry(process.process_id, start, process.burst_time))
          /\ total_idle_time' = IF idle
                                THEN IdleTime(total_idle_time, current_time,
                                              process.arrival_time)
                                ELSE total_idle_time
          /\ current_time' = start + process.burst_time
          /\ passed' = [passed EXCEPT ![loop_index + 1] = Finish(process, current_time')]
    /\ loop_index' = loop_index + 1
    /\ UNCHANGED <<request, pc, processes, rr_state, completed, response>>

FCFSReturn ==
    /\ pc = "fcfs"
    /\ loop_index = Len(passed)
    /\ result' = get_results_dict(passed, gantt, current_time, total_idle_time)
    /\ returned' = "result"
    /\ pc' = "done"
    /\ UNCHANGED <<request, processes, passed, rr_state, completed, loop_index,
                   timeline, error>>

(* ----------------------------- schedule_sjf ---------------------------- *)
\* "if not available": the idle interval up to the next arrival, then continue
SJFIdle ==
    /\ pc = "sjf"
    /\ Len(completed) < Len(passed)
    /\ Available(passed, completed, current_time) = {}
    /\ LET next_arrival == NextArrival(passed, completed)
       IN /\ gantt' = Append(gantt, IdleEntry(current_time, next_arrival))
          /\ total_idle_time' = IdleTime(total_idle_time, current_time, next_arrival)
          /\ current_time' = next_arrival
    /\ UNCHANGED <<request, pc, processes, passed, rr_state, completed, loop_index,
                   response>>

\* a preemptive variant: the selected process runs for one tick and the
\* selection is made again
SJFRunPreemptive ==
    /\ pc = "sjf"
    /\ Len(completed) < Len(passed)
    /\ Available(passed, completed, current_time) # {}
    /\ LET selected == SelectSJF(passed, Available(passed, completed, current_time))
           p        == Ran(passed[selected], 1)
       IN /\ gantt' = Append(gantt, RunEntry(p.process_id, current_time, 1))
          /\ current_time' = current_time + 1
          /\ IF p.remaining_time > 0
             THEN /\ passed' = [passed EXCEPT ![selected] = p]
                  /\ completed' = completed
             ELSE /\ passed' = [passed EXCEPT ![selected] = Finish(p, current_time')]
                  /\ completed' = Append(completed, selected)
    /\ UNCHANGED <<request, pc, processes, rr_state, loop_index, total_idle_time,
                   response>>

SJFRun ==
    /\ pc = "sjf"
    /\ Len(completed) < Len(passed)
    /\ Available(passed, completed, current_time) # {}
    /\ LET selected == SelectSJF(passed, Available(passed, completed, current_time))
           p        == passed[selected]
       IN /\ gantt' = Append(gantt, RunEntry(p.process_id, current_time, p.burst_time))
          /\ current_time' = current_time + p.burst_time
          /\ passed' = [passed EXCEPT ![selected] = Finish(p, current_time')]
          /\ completed' = Append(completed, selected)
    /\ UNCHANGED <<request, pc, processes, rr_state, loop_index, total_idle_time,
                   response>>

SJFReturn ==
    /\ pc = "sjf"
    /\ ~(Len(completed) < Len(passed))
    /\ result' = get_results_dict(passed, gantt, current_time, total_idle_time)
    /\ returned' = "result"
    /\ pc' = "done"
    /\ UNCHANGED <<request, processes, passed, rr_state, completed, loop_index,
                   timeline, error>>

(* -------------------------- schedule_priority -------------------------- *)
PriorityIdle ==
    /\ pc = "priority"
    /\ Len(completed) < Len(passed)
    /\ Available(passed, completed, current_time) = {}
    /\ LET next_arrival == NextArrival(passed, completed)
       IN /\ gantt' = Append(gantt, IdleEntry(current_time, next_arrival))
          /\ total_idle_time' = IdleTime(total_idle_time, current_time, next_arrival)
          /\ current_time' = next_arrival
    /\ UNCHANGED <<request, pc, processes, passed, rr_state, completed, loop_index,
                   response>>

PriorityRun ==
    /\ pc = "priority"
    /\ Len(completed) < Len(passed)
    /\ Available(passed, completed, current_time) # {}
    /\ LET selected == SelectPriority(passed, Available(passed, completed, current_time))
           p        == passed[selected]
       IN /\ gantt' = Append(gantt, RunEntry(p.process_id, current_time, p.burst_time))
          /\ current_time' = current_time + p.burst_time
          /\ passed' = [passed EXCEPT ![selected] = Finish(p, current_time')]
          /\ completed' = Append(completed, selected)
    /\ UNCHANGED <<request, pc, processes, rr_state, loop_index, total_idle_time,
                   response>>

PriorityReturn ==
    /\ pc = "priority"
    /\ ~(Len(completed) < Len(passed))
    /\ result' = get_results_dict(passed, gantt, current_time, total_idle_time)
    /\ returned' = "result"
    /\ pc' = "done"
    /\ UNCHANGED <<request, processes, passed, rr_state, completed, loop_index,
                   timeline, error>>

(* ----------------------------- schedule_rr ----------------------------- *)
\* an "if" in place of the inner while loop: one arrival at most is enqueued
AdmitOne(pcopy, index, now) ==
    IF index < Len(pcopy) /\ pcopy[index + 1].arrival_time <= now
    THEN index + 1
    ELSE index

\* the inner while loop: process_index after every process that has arrived
\* by now, in list order, was enqueued
RECURSIVE Admit(_, _, _)
Admit(pcopy, index, now) ==
    IF index < Len(pcopy) /\ pcopy[index + 1].arrival_time <= now
    THEN Admit(pcopy, index + 1, now)
    ELSE index

\* the ready queue at "current = ready_queue.popleft()": an empty queue has
\* received the next process of the list, and that one only
DispatchQueue(queue, index) == IF queue = <<>> THEN <<index + 1>> ELSE queue

\* the clock is not advanced to the arrival of the next process
DispatchTimeNoAdvance(pcopy, queue, index, now) == now

\* current_time at "current = ready_queue.popleft()"
DispatchTime(pcopy, queue, index, now) ==
    IF queue = <<>> THEN pcopy[index + 1].arrival_time ELSE now

\* the preempted process re-enters the queue ahead of the new arrivals
RequeueBeforeArrivals(rest, arrivals, current, preempted) ==
    IF preempted THEN (Append(rest, current)) \o arrivals ELSE rest \o arrivals

\* the queue after a slice: the inner while loop appends the new arrivals,
\* then "if current.remaining_time > 0" appends the process that just ran
Requeue(rest, arrivals, current, preempted) ==
    IF preempted THEN Append(rest \o arrivals, current) ELSE rest \o arrivals

\* one iteration of "while completed < len(processes_copy)"
RRStep ==
    /\ pc = "rr"
    /\ completed_count < Len(processes_copy)
    /\ Len(gantt) < MaxGantt
    /\ LET idle         == ready_queue = <<>>
           next_arrival == processes_copy[process_index + 1].arrival_time
           g1     == IF idle
                     THEN Append(gantt, IdleEntry(current_time, next_arrival))
                     ELSE gantt
           t1     == DispatchTime(processes_copy, ready_queue, process_index,
                                  current_time)
           q1     == DispatchQueue(ready_queue, process_index)
           i1     == IF idle THEN process_index + 1 ELSE process_index
           current      == Head(q1)
           execute_time == ExecuteTime(time_quantum,
                                       processes_copy[current].remaining_time)
           t2     == t1 + execute_time
           ran    == Ran(processes_copy[current], execute_time)
           i2     == Admit(processes_copy, i1, t2)
           arrivals == [k \in 1..(i2 - i1) |-> i1 + k]
       IN /\ gantt' = Append(g1, RunEntry(ran.process_id, t1, execute_time))
          /\ total_idle_time' = IF idle
                                THEN IdleTime(total_idle_time, current_time, next_arrival)
                                ELSE total_idle_time
          /\ current_time' = t2
          /\ process_index' = i2
          /\ ready_queue' = Requeue(Tail(q1), arrivals, current, ran.remaining_time > 0)
          /\ IF ran.remaining_time > 0
             THEN /\ processes_copy' = [processes_copy EXCEPT ![current] = ran]
                  /\ completed_count' = completed_count
             ELSE /\ processes_copy' = [processes_copy EXCEPT ![current] = Finish(ran, t2)]
                  /\ completed_count' = completed_count + 1
    /\ UNCHANGED <<request, pc, processes, passed, completed, loop_index, response>>

RRReturn ==
    /\ pc = "rr"
    /\ ~(completed_count < Len(processes_copy))
    /\ result' = get_results_dict(processes_copy, gantt, current_time, total_idle_time)
    /\ returned' = "result"
    /\ pc' = "done"
    /\ UNCHANGED <<request, processes, passed, rr_state, completed, loop_index,
                   timeline, error>>

(* --------------------------- specifications ---------------------------- *)
Next ==
    \/ ApiNoProcesses
    \/ ApiInvalidAlgorithm
    \/ CallFCFS
    \/ CallSJF
    \/ CallRR
    \/ CallPriority
    \/ FCFSStep
    \/ FCFSReturn
    \/ SJFIdle
    \/ SJFRun
    \/ SJFReturn
    \/ PriorityIdle
    \/ PriorityRun
    \/ PriorityReturn
    \/ RRStep
    \/ RRReturn

Spec == Init /\ [][Next]_vars

\* a policy is a sequential loop: it always takes its next step
FairSpec == InitFair /\ [][Next]_vars /\ WF_vars(Next)

SpecRaw == InitRaw /\ [][Next]_vars

(* ------------------------- vocabulary of the claims -------------------- *)
\* the request is in the documented ranges: a process at least, arrivals >= 0,
\* bursts > 0, a known algorithm and, for rr, a quantum > 0
ValidRequest ==
    /\ processes_data # <<>>
    /\ \A i \in 1..Len(processes_data) :
          processes_data[i].arrival >= 0 /\ processes_data[i].burst > 0
    /\ algorithm \in Algorithms
    /\ algorithm = "rr" => time_quantum > 0

\* the policy has returned its Schedule Result
Returned == pc = "done" /\ returned = "result"

Duration(e) == e.end_time - e.start_time

Durations(g) == [k \in 1..Len(g) |-> Duration(g[k])]

\* the entries of g labelled id, in order
EntriesOf(g, id) == SelectSeq(g, LAMBDA e : e.process_id = id)

Preempted == \E i \in 1..Len(processes) :
                Len(EntriesOf(result.gantt, processes[i].process_id)) > 1

HasIdle(g) == \E k \in 1..Len(g) : g[k].process_id = IDLE

(* C1: for every policy and every valid non-empty request, the Gantt sequence of
   the result starts at time 0, every entry has start_time <= end_time, each
   entry ends where the next one starts, and the durations add up to
   total_time, which is the end_time of the last entry. *)
C1_GanttContiguous ==
    (Returned /\ ValidRequest) =>
        LET g == result.gantt
        IN /\ g # <<>>
           /\ g[1].start_time = 0
           /\ \A k \in 1..Len(g) : g[k].start_time <= g[k].end_time
           /\ \A k \in 1..(Len(g) - 1) : g[k].end_time = g[k + 1].start_time
           /\ SumSeq(Durations(g)) = result.total_time
           /\ result.total_time = g[Len(g)].end_time

\* a returned schedule with an idle interval between two runs
C1_Witness ==
    /\ Returned /\ ValidRequest
    /\ \E k \in 2..(Len(result.gantt) - 1) : result.gantt[k].process_id = IDLE

(* C2: for every policy and every valid non-empty request, on completion the
   bursts of all processes plus total_idle_time equal total_time, and
   total_idle_time is the sum of the durations of the IDLE entries. *)
C2_TimeAccounting ==
    (Returned /\ ValidRequest) =>
        /\ SumSeq([i \in 1..Len(processes) |-> processes[i].burst_time])
              + result.total_idle_time = result.total_time
        /\ result.total_idle_time = SumSeq(Durations(EntriesOf(result.gantt, IDLE)))

\* a returned schedule with two idle intervals
C2_Witness ==
    /\ Returned /\ ValidRequest
    /\ Len(EntriesOf(result.gantt, IDLE)) = 2
    /\ result.total_idle_time = 2

\* the end_time of the last entry of g labelled id
LastEnd(g, id) == EntriesOf(g, id)[Len(EntriesOf(g, id))].end_time

(* C3: in the output of every policy every process has turnaround_time =
   finish_time - arrival_time and waiting_time = turnaround_time - burst_time,
   finish_time being the end_time of the last Gantt entry with its id. *)
C3_Metrics ==
    (Returned /\ ValidRequest) =>
        \A k \in 1..Len(result.processes) :
            LET p == result.processes[k]
            IN /\ p.turnaround_time = p.finish_time - p.arrival_time
               /\ p.waiting_time = p.turnaround_time - p.burst_time
               /\ EntriesOf(result.gantt, p.process_id) # <<>>
               /\ p.finish_time = LastEnd(result.gantt, p.process_id)

\* a returned schedule in which a late arrival has waited
C3_Witness ==
    /\ Returned /\ ValidRequest
    /\ \E k \in 1..Len(result.processes) :
          /\ result.processes[k].arrival_time > 0
          /\ result.processes[k].waiting_time > 0

(* C4: for every policy and every valid request every completed process has
   waiting_time >= 0. *)
C4_WaitingNonNegative ==
    (Returned /\ ValidRequest) =>
        \A k \in 1..Len(result.processes) : result.processes[k].waiting_time >= 0

\* a returned schedule in which a late arrival ran as soon as it arrived, after an idle gap
C4_Witness ==
    /\ Returned /\ ValidRequest
    /\ HasIdle(result.gantt)
    /\ \E k \in 1..Len(result.processes) :
          /\ result.processes[k].arrival_time > 0
          /\ result.processes[k].waiting_time = 0

(* C5: for every policy the process list of the result contains every input
   process exactly once, also when several processes have the same arrival,
   burst and priority, and the Gantt entries of each total its burst_time. *)
C5_EveryProcessOnce ==
    (Returned /\ ValidRequest) =>
        /\ Len(result.processes) = Len(processes)
        /\ \A i \in 1..Len(processes) :
              /\ Cardinality({k \in 1..Len(result.processes) :
                    /\ result.processes[k].process_id = processes[i].process_id
                    /\ result.processes[k].arrival_time = processes[i].arrival_time
                    /\ result.processes[k].burst_time = processes[i].burst_time
                    /\ result.processes[k].priority = processes[i].priority}) = 1
              /\ SumSeq(Durations(EntriesOf(result.gantt, processes[i].process_id)))
                    = processes[i].burst_time

\* a returned schedule of three processes, two of them with the same values,
\* one of them run in several slices
C5_Witness ==
    /\ Returned /\ ValidRequest
    /\ Len(processes_data) = 3
    /\ processes_data[1] = processes_data[2]
    /\ Preempted

(* C6: every policy run on a valid non-empty request terminates: the
   scheduling loop reaches the state in which all processes are completed and
   the result is returned. *)
C6_Terminates ==
    ValidRequest =>
        <>(/\ Returned
           /\ Len(result.processes) = Len(processes_data)
           /\ \A k \in 1..Len(result.processes) : result.processes[k].finish_time > 0)

\* a Round Robin run with preemptions and an idle interval that has returned
C6_Witness ==
    /\ Returned /\ ValidRequest
    /\ algorithm = "rr"
    /\ Preempted
    /\ HasIdle(result.gantt)

\* some descriptor has a negative arrival_time or a burst_time <= 0
Malformed ==
    \E i \in 1..Len(processes_data) :
        processes_data[i].arrival < 0 \/ processes_data[i].burst <= 0

(* C7: Round Robin invoked with a quantum <= 0 (on well-formed processes) is
   rejected with an InvalidQuantum error before any Gantt entry is produced:
   no result is returned and the scheduling loop is not entered. *)
C7_InvalidQuantumRejected ==
    (processes_data # <<>> /\ ~Malformed /\ algorithm = "rr" /\ time_quantum <= 0) =>
        /\ gantt = <<>>
        /\ returned # "result"
        /\ (pc = "done" => error = "InvalidQuantum")

(* C8: when zero processes are supplied, whatever the selected policy, the
   call is rejected with an error instead of a Schedule Result: no policy
   runs, no Gantt entry and no metrics are produced. *)
C8_EmptyInputRejected ==
    (processes_data = <<>> /\ pc # "request") =>
        /\ pc = "done"
        /\ returned = "error"
        /\ error = "No processes provided"
        /\ gantt = <<>>
        /\ result = NoResult

\* an empty request for one of the four policies has been answered
C8_Witness ==
    /\ processes_data = <<>>
    /\ algorithm = "fcfs"
    /\ pc = "done"

(* C9: a descriptor with a negative arrival_time or a burst_time <= 0 (the
   algorithm being known and the quantum of rr positive) is rejected as
   MalformedProcess before simulation begins: no policy runs, no Gantt entry
   is produced and no result is returned. *)
C9_MalformedRejected ==
    (Malformed /\ algorithm \in Algorithms /\ (algorithm = "rr" => time_quantum > 0)) =>
        /\ gantt = <<>>
        /\ returned # "result"
        /\ (pc = "done" => error = "MalformedProcess")

\* the list has been handed to a policy
Called == pc # "request" /\ returned # "error"

\* p without what a completion writes
Unmeasured(p) ==
    [p EXCEPT !.finish_time = 0, !.turnaround_time = 0, !.waiting_time = 0]

(* C10 as claimed: each of the four policy functions leaves the list passed
   in by its caller and its records unchanged on return: same order, same
   remaining_time, finish_time, turnaround_time and waiting_time. *)
C10_PassedListUnchanged ==
    Returned => passed = CopyList(processes)

(* C10 as amended: schedule_rr leaves the list passed in and its records
   unchanged; schedule_fcfs, schedule_sjf and schedule_priority write
   finish_time, turnaround_time and waiting_time into the records passed in
   and leave their other fields, remaining_time included, unchanged;
   schedule_sjf and schedule_priority keep the order of the list and
   schedule_fcfs reorders it by ascending arrival_time. The list of
   api_schedule itself, of which the policy gets copies, is never changed. *)
C10_OnlyCopiesWritten ==
    Called =>
        /\ processes = BuildProcesses(processes_data)
        /\ Len(passed) = Len(processes)
        /\ algorithm = "rr" => passed = CopyList(processes)
        /\ algorithm \in {"sjf", "priority"} =>
              \A i \in 1..Len(passed) : Unmeasured(passed[i]) = copy(processes[i])
        /\ algorithm = "fcfs" =>
              /\ \A i \in 1..Len(processes) :
                    Cardinality({k \in 1..Len(passed) :
                                    Unmeasured(passed[k]) = copy(processes[i])}) = 1
              /\ \A k \in 1..(Len(passed) - 1) :
                    passed[k].arrival_time <= passed[k + 1].arrival_time

\* schedule_fcfs has returned after reordering the list it was given
C10_Witness ==
    /\ Returned
    /\ algorithm = "fcfs"
    /\ \E k \in 1..Len(passed) : passed[k].process_id # processes[k].process_id
    /\ \A k \in 1..Len(passed) : passed[k].finish_time > 0

(* --------------------------- Round Robin vocabulary -------------------- *)
Range(q) == {q[k] : k \in 1..Len(q)}

\* the position in processes_copy of the process with this id
RRIndexOf(id) == CHOOSE k \in 1..Len(processes_copy) : processes_copy[k].process_id = id

\* the process that ran in the last Gantt entry
LastRun(g) == g[Len(g)].process_id

\* a Round Robin run on a valid request
RRValid == algorithm = "rr" /\ ValidRequest

\* processes that were never put in the ready queue by the time of a dispatch
NotYetEnqueued ==
    {k \in 1..Len(processes_copy) :
        /\ k \notin Range(DispatchQueue(ready_queue, process_index))
        /\ processes_copy[k].finish_time = 0
        /\ processes_copy[k].remaining_time = processes_copy[k].burst_time}

\* the position of k in the queue q
PositionIn(q, k) == CHOOSE pos \in 1..Len(q) : q[pos] = k

\* the slice just taken ended in a preemption at current_time': the processes
\* that arrived by then and were not enqueued are in the queue, in arrival
\* order, ahead of the preempted process, which is last
ArrivalsAheadOfPreempted ==
    LET cur == RRIndexOf(LastRun(gantt'))
        new == {k \in NotYetEnqueued :
                   k # cur /\ processes_copy[k].arrival_time <= current_time'}
        L   == Len(ready_queue')
    IN processes_copy'[cur].remaining_time > 0 =>
          /\ L > 0
          /\ ready_queue'[L] = cur
          /\ \A k \in new : k \in Range(SubSeq(ready_queue', 1, L - 1))
          /\ \A k1, k2 \in new :
                (\/ processes_copy[k1].arrival_time < processes_copy[k2].arrival_time
                 \/ (/\ processes_copy[k1].arrival_time = processes_copy[k2].arrival_time
                     /\ k1 < k2))
                   => PositionIn(ready_queue', k1) < PositionIn(ready_queue', k2)
          /\ \A i, j \in 1..L : ready_queue'[i] = ready_queue'[j] => i = j

\* whenever a process gets a further slice, every process that had arrived
\* by the end of its previous slice has had a slice already
FirstSliceBeforeNextSlice ==
    \A k, l \in 1..Len(gantt) :
        (k < l /\ gantt[k].process_id = gantt[l].process_id /\ gantt[k].process_id # IDLE) =>
            \A q \in 1..Len(processes_copy) :
                processes_copy[q].arrival_time <= gantt[k].end_time =>
                    \E m \in 1..(l - 1) : gantt[m].process_id = processes_copy[q].process_id

(* C11: in Round Robin, whenever a process is preempted at time t with
   remaining_time > 0, every not-yet-enqueued process with arrival_time <= t
   is in the ready queue, in arrival order, ahead of the preempted process;
   hence each of them gets its first slice before the preempted process gets
   its next one. *)
C11_ArrivalsBeforePreempted ==
    /\ [][(pc = "rr" /\ RRValid /\ gantt' # gantt) => ArrivalsAheadOfPreempted]_vars
    /\ []((pc \in {"rr", "done"} /\ RRValid) => FirstSliceBeforeNextSlice)

\* after the first slice the ready queue holds two new arrivals and then the
\* preempted process
C11_Witness ==
    /\ pc = "rr" /\ RRValid
    /\ Len(gantt) = 1
    /\ Len(ready_queue) = 3
    /\ ready_queue[3] = RRIndexOf(LastRun(gantt))
    /\ processes_copy[ready_queue[3]].remaining_time > 0
    /\ processes_copy[ready_queue[1]].arrival_time > 0
    /\ processes_copy[ready_queue[2]].arrival_time > processes_copy[ready_queue[1]].arrival_time

(* ------------------------- SJF and Priority dispatch ------------------- *)
\* the process the step just ran to completion
Dispatched == completed'[Len(completed')]

\* the processes that have arrived by current_time and are not completed
Eligible ==
    {j \in 1..Len(passed) :
        passed[j].arrival_time <= current_time /\ passed[j].finish_time = 0}

\* the step dispatched an eligible process at current_time
DispatchedNow ==
    /\ Dispatched \in Eligible
    /\ gantt' = Append(gantt, [process_id |-> passed[Dispatched].process_id,
                               start_time |-> current_time,
                               end_time   |-> current_time + passed[Dispatched].burst_time])

(* C12: in SJF every process dispatched at time t minimizes (burst_time,
   arrival_time) among the processes with arrival_time <= t that have not
   completed: none of them has a shorter burst, nor an equal burst with an
   earlier arrival. *)
C12_SJFDispatchMinimal ==
    [][(pc = "sjf" /\ ValidRequest /\ completed' # completed) =>
          /\ DispatchedNow
          /\ \A j \in Eligible :
                /\ ~(passed[j].burst_time < passed[Dispatched].burst_time)
                /\ ~(/\ passed[j].burst_time = passed[Dispatched].burst_time
                     /\ passed[j].arrival_time < passed[Dispatched].arrival_time)]_vars

\* the start of the only Gantt entry of the process at position k of passed
StartOf(k) == passed[k].finish_time - passed[k].burst_time

\* SJF ran a process while another one with the same burst, later arrival
\* and earlier place in the list was waiting
C12_Witness ==
    /\ pc = "sjf" /\ ValidRequest
    /\ \E s, e \in 1..Len(passed) :
          /\ passed[s].finish_time > 0
          /\ passed[e].finish_time = 0
          /\ passed[e].burst_time = passed[s].burst_time
          /\ passed[e].arrival_time > passed[s].arrival_time
          /\ passed[e].arrival_time <= StartOf(s)
          /\ e < s

(* C13: in Priority scheduling every process dispatched at time t minimizes
   (priority, arrival_time) among the processes with arrival_time <= t that
   have not completed: the lower priority value wins, ties are broken by the
   earlier arrival. *)
C13_PriorityDispatchMinimal ==
    [][(pc = "priority" /\ ValidRequest /\ completed' # completed) =>
          /\ DispatchedNow
          /\ \A j \in Eligible :
                /\ ~(passed[j].priority < passed[Dispatched].priority)
                /\ ~(/\ passed[j].priority = passed[Dispatched].priority
                     /\ passed[j].arrival_time < passed[Dispatched].arrival_time)]_vars

\* Priority ran a process while another one of the same priority, later
\* arrival and earlier place in the list was waiting
C13_Witness ==
    /\ pc = "priority" /\ ValidRequest
    /\ \E s, e \in 1..Len(passed) :
          /\ passed[s].finish_time > 0
          /\ passed[e].finish_time = 0
          /\ passed[e].priority = passed[s].priority
          /\ passed[e].arrival_time > passed[s].arrival_time
          /\ passed[e].arrival_time <= StartOf(s)
          /\ e < s

(* ----------------------------- non-preemption -------------------------- *)
NonPreemptive == algorithm \in {"fcfs", "sjf", "priority"}

\* the positions of g whose entry is labelled id
PositionsOf(g, id) == {k \in 1..Len(g) : g[k].process_id = id}

(* C14: under FCFS, SJF and Priority a process is never preempted: each
   process has exactly one Gantt entry, of duration exactly burst_time, and no
   other entry starts between its start and its finish, even when a process
   with a shorter burst or a higher priority arrives while it is running. *)
C14_NeverPreempted ==
    (NonPreemptive /\ ValidRequest /\ pc # "request") =>
        \A i \in 1..Len(processes) :
            LET own == PositionsOf(gantt, processes[i].process_id)
            IN /\ Cardinality(own) <= 1
               /\ Returned => Cardinality(own) = 1
               /\ \A k \in own :
                     /\ Duration(gantt[k]) = processes[i].burst_time
                     /\ \A l \in 1..Len(gantt) :
                           l # k => ~(/\ gantt[k].start_time <= gantt[l].start_time
                                      /\ gantt[l].start_time < gantt[k].end_time)

\* Priority has returned a schedule in which a process of higher priority
\* and shorter burst arrived while another one was running, and ran after it
C14_Witness ==
    /\ Returned /\ ValidRequest
    /\ algorithm = "priority"
    /\ \E r, h \in 1..Len(result.processes) :
          LET R == result.processes[r]
              H == result.processes[h]
          IN /\ H.priority < R.priority
             /\ H.burst_time < R.burst_time
             /\ R.finish_time - R.burst_time < H.arrival_time
             /\ H.arrival_time < R.finish_time
             /\ H.finish_time - H.burst_time >= R.finish_time

(* --------------------------------- FCFS -------------------------------- *)
\* the entries of g that are runs of a process
Runs(g) == SelectSeq(g, LAMBDA e : e.process_id # IDLE)

\* the position in the request of the process with this id
InputIndexOf(id) == CHOOSE i \in 1..Len(processes) : processes[i].process_id = id

Max2(a, b) == IF a >= b THEN a ELSE b

(* C15: FCFS runs the processes in ascending arrival_time order, processes
   with equal arrival_time in their input order; each process starts at
   max(finish time of the previous process, its own arrival_time) and runs
   for its full burst_time. *)
C15_FCFSOrder ==
    (Returned /\ ValidRequest /\ algorithm = "fcfs") =>
        LET runs == Runs(result.gantt)
            P(k) == processes[InputIndexOf(runs[k].process_id)]
        IN /\ Len(runs) = Len(processes)
           /\ \A k \in 1..(Len(runs) - 1) :
                 \/ P(k).arrival_time < P(k + 1).arrival_time
                 \/ /\ P(k).arrival_time = P(k + 1).arrival_time
                    /\ InputIndexOf(runs[k].process_id)
                          < InputIndexOf(runs[k + 1].process_id)
           /\ \A k \in 1..Len(runs) :
                 /\ runs[k].start_time =
                       Max2(IF k = 1 THEN 0 ELSE runs[k - 1].end_time, P(k).arrival_time)
                 /\ runs[k].end_time = runs[k].start_time + P(k).burst_time

\* FCFS has returned: the first process of the request ran last, two others
\* arrived together and ran in input order, after an idle interval
C15_Witness ==
    /\ Returned /\ ValidRequest /\ algorithm = "fcfs"
    /\ Len(processes) = 3
    /\ processes[2].arrival_time = processes[3].arrival_time
    /\ processes[1].arrival_time > processes[2].arrival_time
    /\ HasIdle(result.gantt)
    /\ Runs(result.gantt)[3].process_id = processes[1].process_id

(* ------------------------------ idle intervals ------------------------- *)
\* the ticks the process p has run in the entries of g before position k
RanBefore(g, k, p) == SumSeq(Durations(EntriesOf(SubSeq(g, 1, k - 1), p.process_id)))

\* the processes not completed when the entry at position k of g begins
PendingAt(g, k) ==
    {i \in 1..Len(processes) : RanBefore(g, k, processes[i]) < processes[i].burst_time}

(* C16: in every policy the CPU idles only when nothing is eligible: an IDLE
   entry [s, e) is produced only if every not-yet-completed process has
   arrival_time > s, and e is the minimum arrival_time among them, so the
   entry has positive duration and no two IDLE entries are adjacent; when no
   process arrives at 0 the first entry is IDLE over [0, min_arrival). *)
C16_IdleOnlyWhenNothingEligible ==
    (ValidRequest /\ pc # "request") =>
        /\ \A k \in PositionsOf(gantt, IDLE) :
              LET pending == PendingAt(gantt, k)
              IN /\ pending # {}
                 /\ \A i \in pending : processes[i].arrival_time > gantt[k].start_time
                 /\ \A i \in pending : processes[i].arrival_time >= gantt[k].end_time
                 /\ \E i \in pending : processes[i].arrival_time = gantt[k].end_time
                 /\ gantt[k].end_time > gantt[k].start_time
                 /\ k < Len(gantt) => gantt[k + 1].process_id # IDLE
        /\ (gantt # <<>> /\ \A i \in 1..Len(processes) : processes[i].arrival_time > 0) =>
              /\ gantt[1].process_id = IDLE
              /\ gantt[1].start_time = 0
              /\ \A i \in 1..Len(processes) : processes[i].arrival_time >= gantt[1].end_time
              /\ \E i \in 1..Len(processes) : processes[i].arrival_time = gantt[1].end_time

\* a Round Robin schedule that begins idle and idles again after a preempted
\* process has completed
C16_Witness ==
    /\ Returned /\ ValidRequest /\ algorithm = "rr"
    /\ Preempted
    /\ result.gantt[1].process_id = IDLE
    /\ \E k \in 3..Len(result.gantt) : result.gantt[k].process_id = IDLE

(* ------------------------------ RR time slices ------------------------- *)
CeilDiv(a, b) == (a + b - 1) \div b

(* C17: in Round Robin with quantum q > 0 every slice has duration
   min(q, remaining_time before the slice) and remaining_time decreases by
   it; so a process with burst b gets exactly ceil(b/q) entries, all of length
   q except possibly the last, its remaining_time stays within 0..b and is 0
   exactly when it is marked finished. *)
C17_RRSlices ==
    (RRValid /\ pc \in {"rr", "done"}) =>
        \A k \in 1..Len(processes_copy) :
            LET p      == processes_copy[k]
                slices == EntriesOf(gantt, p.process_id)
                before(j) == p.burst_time - ((j - 1) * time_quantum)
            IN /\ p.remaining_time \in 0..p.burst_time
               /\ p.remaining_time = p.burst_time - SumSeq(Durations(slices))
               /\ \A j \in 1..Len(slices) :
                     /\ before(j) > 0
                     /\ Duration(slices[j]) =
                           (IF time_quantum <= before(j) THEN time_quantum ELSE before(j))
               /\ (p.remaining_time = 0) <=> (p.finish_time # 0)
               /\ p.remaining_time = 0 =>
                     /\ Len(slices) = CeilDiv(p.burst_time, time_quantum)
                     /\ p.finish_time = slices[Len(slices)].end_time
               /\ pc = "done" => p.remaining_time = 0

\* a process of burst 3 has run with quantum 2 in a slice of 2 and a slice of
\* 1, with another process in between
C17_Witness ==
    /\ Returned /\ RRValid
    /\ time_quantum = 2
    /\ \E k \in 1..Len(processes_copy) :
          LET slices == EntriesOf(gantt, processes_copy[k].process_id)
          IN /\ processes_copy[k].burst_time = 3
             /\ Len(slices) = 2
             /\ Duration(slices[1]) = 2
             /\ Duration(slices[2]) = 1
             /\ slices[1].end_time < slices[2].start_time

(* --------------------------- RR queue at dispatch ---------------------- *)
\* schedule_rr is about to dequeue the head of the ready queue
AtDispatch == pc = "rr" /\ completed_count < Len(processes_copy)

\* the ready queue and the clock at that dequeue
QueueAtDispatch == DispatchQueue(ready_queue, process_index)

TimeAtDispatch == DispatchTime(processes_copy, ready_queue, process_index, current_time)

\* the processes that have arrived and are not completed at that dequeue
ArrivedAtDispatch ==
    {k \in 1..Len(processes_copy) :
        /\ processes_copy[k].remaining_time > 0
        /\ processes_copy[k].arrival_time <= TimeAtDispatch}

\* those of them that are not in the ready queue
MissingAtDispatch == ArrivedAtDispatch \ Range(QueueAtDispatch)

(* C18 as claimed: in Round Robin, whenever the head is dequeued for
   dispatch, the ready queue (head included) contains every not-yet-completed
   process with arrival_time <= current_time. *)
C18_QueueHoldsAllArrived ==
    (RRValid /\ AtDispatch) => MissingAtDispatch = {}

(* C18 as amended: whenever the head is dequeued, the ready queue holds only
   arrived, not-yet-completed processes, and every such process that is
   missing from it was never enqueued and arrives exactly at the time of this
   dispatch, which is the first dispatch or the one following an idle
   advance: of the processes arriving at that time only the first of the
   list is enqueued before the dispatch. The missing ones are in the queue
   when the slice is over, and at every other dispatch nothing is missing. *)
C18_QueueHoldsAllButSimultaneous ==
    /\ []((RRValid /\ AtDispatch) =>
            /\ QueueAtDispatch # <<>>
            /\ Range(QueueAtDispatch) \subseteq ArrivedAtDispatch
            /\ \A k \in MissingAtDispatch :
                  /\ k \in NotYetEnqueued
                  /\ processes_copy[k].arrival_time = TimeAtDispatch
                  /\ processes_copy[Head(QueueAtDispatch)].arrival_time = TimeAtDispatch
                  /\ Head(QueueAtDispatch) < k
                  /\ gantt = <<>> \/ ready_queue = <<>>
            /\ (gantt # <<>> /\ ready_queue # <<>>) => MissingAtDispatch = {})
    /\ [][(RRValid /\ AtDispatch /\ gantt' # gantt) =>
             MissingAtDispatch \subseteq Range(ready_queue')]_vars

\* after an idle advance two processes arrive together and one of them only
\* is in the ready queue at the dispatch
C18_Witness ==
    /\ RRValid /\ AtDispatch
    /\ gantt # <<>>
    /\ ready_queue = <<>>
    /\ MissingAtDispatch # {}

(* ------------------- the Round Robin of the specification -------------- *)
\* the position in ps of the process that comes first by (arrival_time, position)
\* among those at the positions todo
RefFirst(ps, todo) ==
    CHOOSE i \in todo :
        \A j \in todo : \/ ps[i].arrival_time < ps[j].arrival_time
                        \/ (ps[i].arrival_time = ps[j].arrival_time /\ i <= j)

\* the processes sorted by arrival_time, ties in input order
RECURSIVE RefSorted(_, _)
RefSorted(ps, todo) ==
    IF todo = {} THEN <<>>
    ELSE <<ps[RefFirst(ps, todo)]>> \o RefSorted(ps, todo \ {RefFirst(ps, todo)})

\* how many processes of the sorted list have arrival_time <= now
RefArrived(ps, now) == Cardinality({k \in 1..Len(ps) : ps[k].arrival_time <= now})

\* the queue with the processes index+1 .. upto appended
RefEnqueue(queue, index, upto) == queue \o [k \in 1..(upto - index) |-> index + k]

\* steps 1 to 4 of the loop, until every process has completed;
\* st = [ps, queue, index, time, gantt, idle, done]
RECURSIVE RefLoop(_, _)
RefLoop(st, quantum) ==
    IF st.done = Len(st.ps) THEN st
    ELSE
      LET empty == st.queue = <<>>
          \* 1. advance_to the next arrival and enqueue all that arrive then
          t1    == IF empty THEN st.ps[st.index + 1].arrival_time ELSE st.time
          g1    == IF empty /\ st.time < t1
                   THEN Append(st.gantt, [process_id |-> IDLE, start_time |-> st.time,
                                          end_time |-> t1])
                   ELSE st.gantt
          idle1 == IF empty /\ st.time < t1 THEN st.idle + (t1 - st.time) ELSE st.idle
          i1    == IF empty THEN RefArrived(st.ps, t1) ELSE st.index
          q1    == IF empty THEN RefEnqueue(st.queue, st.index, i1) ELSE st.queue
          \* 2. dequeue the head and run it for min(quantum, remaining_time)
          head  == Head(q1)
          exec  == IF quantum <= st.ps[head].remaining_time
                   THEN quantum ELSE st.ps[head].remaining_time
          t2    == t1 + exec
          g2    == Append(g1, [process_id |-> st.ps[head].process_id,
                               start_time |-> t1, end_time |-> t2])
          left  == st.ps[head].remaining_time - exec
          \* 3. enqueue the processes that have arrived by now
          i2    == IF RefArrived(st.ps, t2) > i1 THEN RefArrived(st.ps, t2) ELSE i1
          q2    == RefEnqueue(Tail(q1), i1, i2)
          \* 4. re-enqueue the process or mark it finished
          after == IF left > 0
                   THEN [st.ps EXCEPT ![head].remaining_time = left]
                   ELSE [st.ps EXCEPT ![head].remaining_time = 0,
                                      ![head].finish_time = t2,
                                      ![head].turnaround_time = t2 - st.ps[head].arrival_time,
                                      ![head].waiting_time =
                                          (t2 - st.ps[head].arrival_time)
                                             - st.ps[head].burst_time]
      IN RefLoop([ps    |-> after,
                  queue |-> IF left > 0 THEN Append(q2, head) ELSE q2,
                  index |-> i2,
                  time  |-> t2,
                  gantt |-> g2,
                  idle  |-> idle1,
                  done  |-> IF left > 0 THEN st.done ELSE st.done + 1],
                 quantum)

\* the reference run on the processes of the request: every process with
\* arrival_time <= 0 is enqueued initially
RefRR(ps, quantum) ==
    LET sorted == RefSorted(ps, 1..Len(ps))
    IN RefLoop([ps    |-> sorted,
                queue |-> RefEnqueue(<<>>, 0, RefArrived(sorted, 0)),
                index |-> RefArrived(sorted, 0),
                time  |-> 0,
                gantt |-> <<>>,
                idle  |-> 0,
                done  |-> 0],
               quantum)

(* C19: for every request with arrival_time >= 0, burst_time > 0 and
   quantum > 0, schedule_rr, which enqueues one process only initially and
   after an idle gap, returns the same Gantt sequence and the same finish
   times as the Round Robin of the specification, which enqueues all the
   processes that have arrived at those two points. *)
C19_SameAsReference ==
    (Returned /\ RRValid) =>
        LET ref == RefRR(processes, time_quantum)
        IN /\ result.gantt = ref.gantt
           /\ result.total_time = ref.time
           /\ result.total_idle_time = ref.idle
           /\ Len(result.processes) = Len(ref.ps)
           /\ \A k \in 1..Len(ref.ps) :
                 /\ result.processes[k].process_id = ref.ps[k].process_id
                 /\ result.processes[k].finish_time = ref.ps[k].finish_time
                 /\ result.processes[k].turnaround_time = ref.ps[k].turnaround_time
                 /\ result.processes[k].waiting_time = ref.ps[k].waiting_time

\* a returned run in which three processes arrive together after an idle
\* gap and are preempted
C19_Witness ==
    /\ Returned /\ RRValid
    /\ Len(processes) = 3
    /\ \A i \in 1..3 : processes[i].arrival_time = 1 /\ processes[i].burst_time > time_quantum
    /\ result.gantt[1].process_id = IDLE

(* --------------------------- one CPU, after arrival -------------------- *)
\* the timeline built so far, or the one returned
Timeline == IF Returned THEN result.gantt ELSE gantt

\* the positions of g whose entry is a process on the CPU during tick t
OnCPU(g, t) ==
    {k \in 1..Len(g) :
        g[k].process_id # IDLE /\ g[k].start_time <= t /\ t < g[k].end_time}

\* the last tick any entry of g reaches
Horizon(g) == IF g = <<>> THEN 0 ELSE g[Len(g)].end_time

(* C20: in every policy, on a request with arrival_time >= 0 and
   burst_time > 0, every Gantt entry labelled with a process id has
   start_time >= the arrival_time of that process, and at every tick at most
   one entry has a process on the CPU; this holds of the timeline at every
   step of the run and of the one returned. *)
C20_AfterArrivalOneAtATime ==
    (Called /\ ValidRequest) =>
        /\ \A k \in 1..Len(Timeline) :
              Timeline[k].process_id # IDLE =>
                  /\ \E i \in 1..Len(processes) :
                        processes[i].process_id = Timeline[k].process_id
                  /\ Timeline[k].start_time >=
                        processes[InputIndexOf(Timeline[k].process_id)].arrival_time
        /\ \A t \in 0..Horizon(Timeline) : Cardinality(OnCPU(Timeline, t)) <= 1

\* a returned timeline where one process starts at its arrival after an idle
\* interval and another one, arrived at the same time, waits for the CPU
C20_Witness ==
    /\ Returned /\ ValidRequest
    /\ \E k \in 2..Len(result.gantt) :
          /\ result.gantt[k - 1].process_id = IDLE
          /\ result.gantt[k].process_id # IDLE
          /\ result.gantt[k].start_time =
                processes[InputIndexOf(result.gantt[k].process_id)].arrival_time
          /\ \E i \in 1..Len(processes) :
                /\ processes[i].process_id # result.gantt[k].process_id
                /\ processes[i].arrival_time = result.gantt[k].start_time
                /\ EntriesOf(result.gantt, processes[i].process_id)[1].start_time
                      > processes[i].arrival_time

====
